---- MODULE Spec2Model ----
(***************************************************************************)
(* Model of tantivy's src/query/weight.rs: the three generic traversals    *)
(* (for_each_scorer, for_each_docset, for_each_pruning_scorer) and the     *)
(* default methods of the Weight trait (count, for_each,                   *)
(* for_each_no_score, for_each_pruning).                                   *)
(*                                                                         *)
(* Every thread runs one call of one default method over its own segment.  *)
(* A call is split at the points where it touches the scorer or the        *)
(* caller's callback: the factory call, doc(), score(), the callback and   *)
(* advance().                                                              *)
(*                                                                         *)
(* Scores are f32 values; a score level k stands for k * 0.5 and NaN for   *)
(* the f32 NaN, for which every comparison is false.                       *)
(***************************************************************************)
EXTENDS Integers, Sequences, FiniteSets, TLC

\* ------------------------------------------------------------------ bounds
NumDocs == 3        \* documents a segment can hold
MaxScore == 4       \* highest score level (4 levels of 0.5 up to 2.0)

\* --------------------------------------------------------------- constants
TERMINATED == 2147483647   \* crate::TERMINATED, i32::MAX as a DocId
NaN == -1                  \* the f32 NaN
DefaultBoost == 1          \* the 1.0 passed to self.scorer

Threads == {1, 2}

\* Identifier of the i-th document of a segment: 3, 7, 9, 11, ...
DocIdOf(i) == IF i = 1 THEN 3 ELSE 2 * i + 3

DocUniverse == {DocIdOf(i) : i \in 1..NumDocs}

ScoreLevels == 1..MaxScore
ScoreValues == (0..MaxScore) \cup {NaN}

Modes == {"for_each", "for_each_no_score", "for_each_pruning", "count"}

\* ------------------------------------------------------------- f32 helpers
\* a > b on f32: false as soon as one side is NaN.
GT(a, b) == a # NaN /\ b # NaN /\ a > b

\* a * b on f32, for the values the model uses.
Mul(a, b) == IF a = NaN \/ b = NaN THEN NaN ELSE a * b

\* f32::max(a, b): the other operand when one is NaN.
FMax(a, b) == IF a = NaN THEN b ELSE IF b = NaN THEN a ELSE IF a > b THEN a ELSE b

\* ----------------------------------------------------------------- cursors
\* A segment's matches: the first n documents of the universe, each with the
\* score the query gives it, in increasing identifier order.
MatchLists ==
    UNION {[1..n -> ScoreLevels] : n \in 0..NumDocs}

\* reader.alive_bitset(): None, or Some(the set of documents not deleted).
NoBitset == [some |-> FALSE, docs |-> DocUniverse]

AliveBitsets ==
    {NoBitset} \cup {[some |-> TRUE, docs |-> a] : a \in SUBSET DocUniverse}

\* The bitsets the pruning calls are given: none, or the second document deleted.
PruningBitsets ==
    {NoBitset, [some |-> TRUE, docs |-> DocUniverse \ {DocIdOf(2)}]}

\* A SegmentReader as the query sees it: the scores of its matches, its alive
\* bitset, whether building a scorer over it fails (nothing of it can be
\* read then), and whether the scorer it yields has a score() that aborts
\* (it has no scores to report then).
Unreadable ==
    [scores |-> <<>>, alive |-> NoBitset, fails |-> TRUE, scoreAborts |-> FALSE]

SegmentsOver(bitsets) ==
    [scores : MatchLists, alive : bitsets, fails : {FALSE}, scoreAborts : {FALSE}]
        \cup [scores : UNION {[1..n -> {NaN}] : n \in 0..NumDocs},
               alive : bitsets, fails : {FALSE}, scoreAborts : {TRUE}]
        \cup {Unreadable}

\* Callback of for_each_pruning: what it returns for (threshold in force, score).
Policies ==
    {[kind |-> "max", val |-> 0], [kind |-> "keep", val |-> 0]}
        \cup {[kind |-> "const", val |-> v] : v \in 0..MaxScore}

VARIABLES
    mode,       \* the default method each thread calls
    pc,         \* where each thread is in its call
    seg,        \* the SegmentReader each thread was given
    thr0,       \* for_each_pruning's threshold argument
    policy,     \* the caller's pruning callback
    scorer,     \* the Box<dyn Scorer> the factory returned
    doc,        \* local `doc`
    score,      \* local `score` / the argument scorer.score()
    threshold,  \* local `threshold` of for_each_pruning_scorer
    delivered,  \* callback invocations so far
    returns,    \* values the pruning callback returned so far
    ops,        \* calls made on the scorer so far
    factory,    \* boosts passed to self.scorer so far
    ret         \* the call's result

vars == <<mode, pc, seg, thr0, policy, scorer, doc, score, threshold,
          delivered, returns, ops, factory, ret>>

\* ------------------------------------------------------- the scorer (DocSet)
\* Weight::scorer(reader, boost) on a readable segment.
MakeScorer(segment, boost) ==
    [postings |-> [i \in 1..Len(segment.scores) |->
                     <<DocIdOf(i), Mul(segment.scores[i], boost)>>],
     pos |-> 1,
     aborts |-> segment.scoreAborts]

NoScorer == [postings |-> <<>>, pos |-> 1, aborts |-> FALSE]

\* DocSet::doc()
DocOf(c) == IF c.pos > Len(c.postings) THEN TERMINATED ELSE c.postings[c.pos][1]

\* DocSet::advance(): the cursor after the call (TERMINATED is sticky).
AdvanceCursor(c) == IF c.pos > Len(c.postings) THEN c ELSE [c EXCEPT !.pos = @ + 1]

\* Scorer::score(): the score of the current document; any value at TERMINATED.
ScoresAt(c) == IF c.pos > Len(c.postings) THEN ScoreValues ELSE {c.postings[c.pos][2]}

\* Documents the cursor has not passed yet.
Remaining(c) == {c.postings[i][1] : i \in c.pos..Len(c.postings)}

\* DocSet::count(alive_bitset): full traversal, counting the alive documents.
DocSetCount(c, alive) == Cardinality(Remaining(c) \cap alive)

\* DocSet::count_including_deleted(): full traversal, counting every document.
CountIncludingDeleted(c) == Cardinality(Remaining(c))

Exhausted(c) == [c EXCEPT !.pos = Len(c.postings) + 1]

\* ------------------------------------------------------------ the callbacks
\* The pruning callback's return value for (threshold it last set, score).
CallbackReturn(p, thr, s) ==
    IF p.kind = "max" THEN FMax(thr, s)
    ELSE IF p.kind = "keep" THEN thr
    ELSE p.val

\* What the callback receives: (doc, score), or (doc) in the score-free walk.
Event(m, d, s) == IF m = "for_each_no_score" THEN <<d>> ELSE <<d, s>>

\* ------------------------------------------------------------ control flow
\* Mutant: the score-free loop scores each document like the scoring loop.
LoopHeadAlwaysScores(m, d) == IF d # TERMINATED THEN "score" ELSE "return"

\* Mutant: the scoring loops test the loop condition after the body.
LoopHeadDoWhile(m, d) ==
    IF m = "for_each_no_score"
    THEN IF d # TERMINATED THEN "callback" ELSE "return"
    ELSE "score"

\* `while doc != TERMINATED`: the loop body's first step, or the return.
LoopHead(m, d) ==
    IF d # TERMINATED
    THEN IF m = "for_each_no_score" THEN "callback" ELSE "score"
    ELSE "return"

\* Mutant: `if score >= threshold`.
AfterScoreNonStrict(m, s, thr) ==
    IF m = "for_each_pruning"
    THEN IF GT(s, thr) \/ s = thr THEN "callback" ELSE "advance"
    ELSE "callback"

\* Mutant: the pruning loop breaks at the first document not above the threshold.
AfterScoreStopsEarly(m, s, thr) ==
    IF m = "for_each_pruning"
    THEN IF GT(s, thr) THEN "callback" ELSE "return"
    ELSE "callback"

\* Mutant: the pruning test is turned around, `if score < threshold`.
AfterScoreInverted(m, s, thr) ==
    IF m = "for_each_pruning"
    THEN IF GT(thr, s) THEN "callback" ELSE "advance"
    ELSE "callback"

\* After scorer.score(): for_each_scorer calls back; for_each_pruning_scorer
\* calls back only `if score > threshold`.
AfterScore(m, s, thr) ==
    IF m = "for_each_pruning"
    THEN IF GT(s, thr) THEN "callback" ELSE "advance"
    ELSE "callback"

\* Mutant: the loops break after the first callback.
AfterCallbackBreaks(m) == "return"

\* Mutant: only the score-free loop breaks after the first callback.
AfterCallbackDocsetBreaks(m) == IF m = "for_each_no_score" THEN "return" ELSE "advance"

\* After the callback: `doc = scorer.advance()` is next in all three loops.
AfterCallback(m) == "advance"

\* Mutant: the loop keeps the threshold from going down.
NextThresholdMonotone(m, thr, r) == IF m = "for_each_pruning" THEN FMax(thr, r) ELSE thr

\* Mutant: the callback's return value is dropped.
NextThresholdDropped(m, thr, r) == thr

\* `threshold = callback(doc, score)`
NextThreshold(m, thr, r) == IF m = "for_each_pruning" THEN r ELSE thr

\* Mutant: the traversal starts with `let mut doc = scorer.advance()`.
AtEntryAdvances(c) == AdvanceCursor(c)

\* `let mut doc = scorer.doc()`: the cursor after the call; doc() only reads.
AtEntry(c) == c

\* Mutant: the threshold lives in state shared by all running calls.
StoreThresholdShared(th, t, v) == [u \in DOMAIN th |-> v]

\* `mut threshold: Score` is a by-value parameter: a local of the running call.
StoreThreshold(th, t, v) == [th EXCEPT ![t] = v]

\* Mutant: count never looks at the alive bitset.
CountResultIgnoresBitset(segment, c) == CountIncludingDeleted(c)

\* Body of Weight::count after the scorer was built.
CountResult(segment, c) ==
    IF segment.alive.some
    THEN DocSetCount(c, segment.alive.docs)
    ELSE CountIncludingDeleted(c)

\* Mutant: for_each_pruning passes its threshold where the boost belongs.
BoostArgThreshold(m, thr) == IF m = "for_each_pruning" THEN thr ELSE DefaultBoost

\* The boost argument of `self.scorer(reader, 1.0)`, the same in every method.
BoostArg(m, thr) == DefaultBoost

\* Mutant: the factory's error is dropped and the call goes on.
AfterFactoryIgnoresError(m, failed) == IF m = "count" THEN "count" ELSE "doc"

\* `self.scorer(reader, 1.0)?`: where the call goes on.
AfterFactory(m, failed) ==
    IF failed THEN "returned"
    ELSE IF m = "count" THEN "count" ELSE "doc"

Pending == [kind |-> "pending", val |-> 0]
Ok(v) == [kind |-> "ok", val |-> v]
Err == [kind |-> "err", val |-> 0]

\* ------------------------------------------------------------------ actions
\* let mut scorer = self.scorer(reader, 1.0)?;
Construct(t) ==
    /\ pc[t] = "start"
    /\ factory' = [factory EXCEPT ![t] = Append(@, BoostArg(mode[t], thr0[t]))]
    /\ pc' = [pc EXCEPT ![t] = AfterFactory(mode[t], seg[t].fails)]
    /\ IF seg[t].fails
       THEN /\ ret' = [ret EXCEPT ![t] = Err]
            /\ UNCHANGED scorer
       ELSE /\ scorer' = [scorer EXCEPT ![t] = MakeScorer(seg[t], BoostArg(mode[t], thr0[t]))]
            /\ UNCHANGED ret
    /\ UNCHANGED <<mode, seg, thr0, policy, doc, score, threshold,
                   delivered, returns, ops>>

\* let mut doc = scorer.doc();   (entry of the traversal function)
ReadDoc(t) ==
    /\ pc[t] = "doc"
    /\ LET c == AtEntry(scorer[t]) IN
          /\ scorer' = [scorer EXCEPT ![t] = c]
          /\ doc' = [doc EXCEPT ![t] = DocOf(c)]
          /\ ops' = [ops EXCEPT ![t] = Append(@, <<"doc", DocOf(c)>>)]
          /\ pc' = [pc EXCEPT ![t] = LoopHead(mode[t], DocOf(c))]
    /\ threshold' = StoreThreshold(threshold, t, thr0[t])
    /\ UNCHANGED <<mode, seg, thr0, policy, score, delivered, returns, factory, ret>>

\* scorer.score()
CallScore(t) ==
    /\ pc[t] = "score"
    /\ \E s \in ScoresAt(scorer[t]) :
          /\ ops' = [ops EXCEPT ![t] = Append(@, <<"score", DocOf(scorer[t])>>)]
          /\ IF scorer[t].aborts
             THEN /\ pc' = [pc EXCEPT ![t] = "aborted"]
                  /\ UNCHANGED score
             ELSE /\ score' = [score EXCEPT ![t] = s]
                  /\ pc' = [pc EXCEPT ![t] = AfterScore(mode[t], s, threshold[t])]
    /\ UNCHANGED <<mode, seg, thr0, policy, scorer, doc, threshold,
                   delivered, returns, factory, ret>>

\* callback(doc, score) / callback(doc) / threshold = callback(doc, score)
Callback(t) ==
    /\ pc[t] = "callback"
    /\ delivered' = [delivered EXCEPT ![t] = Append(@, Event(mode[t], doc[t], score[t]))]
    /\ LET r == CallbackReturn(policy[t], threshold[t], score[t]) IN
          /\ threshold' = StoreThreshold(threshold, t, NextThreshold(mode[t], threshold[t], r))
          /\ returns' = [returns EXCEPT ![t] =
                            IF mode[t] = "for_each_pruning" THEN Append(@, r) ELSE @]
    /\ pc' = [pc EXCEPT ![t] = AfterCallback(mode[t])]
    /\ UNCHANGED <<mode, seg, thr0, policy, scorer, doc, score, ops, factory, ret>>

\* doc = scorer.advance();
Advance(t) ==
    /\ pc[t] = "advance"
    /\ LET c == AdvanceCursor(scorer[t]) IN
          /\ scorer' = [scorer EXCEPT ![t] = c]
          /\ doc' = [doc EXCEPT ![t] = DocOf(c)]
          /\ ops' = [ops EXCEPT ![t] = Append(@, <<"advance", DocOf(c)>>)]
          /\ pc' = [pc EXCEPT ![t] = LoopHead(mode[t], DocOf(c))]
    /\ UNCHANGED <<mode, seg, thr0, policy, score, threshold, delivered,
                   returns, factory, ret>>

\* Ok(scorer.count(alive_bitset)) / Ok(scorer.count_including_deleted())
Count(t) ==
    /\ pc[t] = "count"
    /\ ret' = [ret EXCEPT ![t] = Ok(CountResult(seg[t], scorer[t]))]
    /\ scorer' = [scorer EXCEPT ![t] = Exhausted(@)]
    /\ pc' = [pc EXCEPT ![t] = "returned"]
    /\ UNCHANGED <<mode, seg, thr0, policy, doc, score, threshold, delivered,
                   returns, ops, factory>>

\* Ok(())
Return(t) ==
    /\ pc[t] = "return"
    /\ ret' = [ret EXCEPT ![t] = Ok(0)]
    /\ pc' = [pc EXCEPT ![t] = "returned"]
    /\ UNCHANGED <<mode, seg, thr0, policy, scorer, doc, score, threshold,
                   delivered, returns, ops, factory>>

Step(t) ==
    \/ Construct(t)
    \/ ReadDoc(t)
    \/ CallScore(t)
    \/ Callback(t)
    \/ Advance(t)
    \/ Count(t)
    \/ Return(t)

Next == \E t \in Threads : Step(t)

\* ----------------------------------------------------------- initial states
KeepPolicy == [kind |-> "keep", val |-> 0]

\* One call of a default method: only for_each_pruning takes a threshold and
\* a threshold-returning callback.
Calls ==
    [mode : {"for_each", "for_each_no_score", "count"},
     seg : SegmentsOver(AliveBitsets), thr0 : {0}, policy : {KeepPolicy}]
        \cup [mode : {"for_each_pruning"},
               seg : SegmentsOver(PruningBitsets), thr0 : ScoreValues, policy : Policies]

\* The state at the entry of the calls `calls` assigns to the active threads.
InitFrom(active, calls) ==
    /\ \E call \in calls :
          /\ mode = [t \in Threads |-> IF t \in active THEN call[t].mode ELSE "for_each"]
          /\ seg = [t \in Threads |->
                      IF t \in active THEN call[t].seg
                      ELSE [Unreadable EXCEPT !.fails = FALSE]]
          /\ thr0 = [t \in Threads |-> IF t \in active THEN call[t].thr0 ELSE 0]
          /\ policy = [t \in Threads |-> IF t \in active THEN call[t].policy ELSE KeepPolicy]
    /\ pc = [t \in Threads |-> IF t \in active THEN "start" ELSE "idle"]
    /\ scorer = [t \in Threads |-> NoScorer]
    /\ doc = [t \in Threads |-> 0]
    /\ score = [t \in Threads |-> 0]
    /\ threshold = [t \in Threads |-> 0]
    /\ delivered = [t \in Threads |-> <<>>]
    /\ returns = [t \in Threads |-> <<>>]
    /\ ops = [t \in Threads |-> <<>>]
    /\ factory = [t \in Threads |-> <<>>]
    /\ ret = [t \in Threads |-> Pending]

\* Each active thread makes any one of the calls `calls`.
InitWith(active, calls) == InitFrom(active, [active -> calls])

\* One call on one thread.
Init == InitWith({1}, Calls)

Spec == Init /\ [][Next]_vars

\* One call under the scheduling of a running thread: a thread that can take
\* a step eventually takes it (the loops are synchronous and never yield).
\* The segments have scores at the two ends of the range.
LiveSegments ==
    [scores : UNION {[1..n -> {1, MaxScore}] : n \in 0..NumDocs},
     alive : PruningBitsets, fails : {FALSE}, scoreAborts : {FALSE}]
        \cup [scores : UNION {[1..n -> {NaN}] : n \in 0..NumDocs},
               alive : {NoBitset}, fails : {FALSE}, scoreAborts : {TRUE}]
        \cup {Unreadable}

LiveCalls ==
    [mode : {"for_each", "for_each_no_score", "count"},
     seg : LiveSegments, thr0 : {0}, policy : {KeepPolicy}]
        \cup [mode : {"for_each_pruning"},
               seg : LiveSegments, thr0 : {0, MaxScore - 1, NaN},
               policy : {p \in Policies : p.val \in {0, MaxScore}}]

InitLive == InitWith({1}, LiveCalls)

FairSpec == InitLive /\ [][Next]_vars /\ \A t \in Threads : WF_vars(Step(t))

\* Several threads call the default methods of one Weight at once, each over
\* its own segment. Segments of concurrent calls are kept short, with scores
\* at the two ends of the range.
ConcMatchLists ==
    UNION {[1..n -> {1, MaxScore}] : n \in 0..(NumDocs - 1)}

ConcSegments ==
    [scores : ConcMatchLists, alive : {NoBitset}, fails : {FALSE}, scoreAborts : {FALSE}]

ConcCalls ==
    [mode : {"for_each", "for_each_no_score", "count"},
     seg : ConcSegments, thr0 : {0}, policy : {KeepPolicy}]
        \cup [mode : {"for_each_pruning"},
               seg : ConcSegments, thr0 : {0, MaxScore - 1},
               policy : {[kind |-> "max", val |-> 0], [kind |-> "const", val |-> 0]}]

InitConc == InitWith(Threads, ConcCalls)

SpecConc == InitConc /\ [][Next]_vars

\* ===================================================================
\* Properties
\* ===================================================================
IsPrefix(a, b) == Len(a) <= Len(b) /\ a = SubSeq(b, 1, Len(a))

\* The (document, score) pairs a segment's query matches, in identifier order.
Matches(segment) ==
    [i \in 1..Len(segment.scores) |-> <<DocIdOf(i), segment.scores[i]>>]

\* The identifiers of a sequence of callback events.
Ids(events) == [i \in 1..Len(events) |-> events[i][1]]

IsAdvance(op) == op[1] = "advance"
IsScore(op) == op[1] = "score"

Traversals == {"for_each", "for_each_no_score", "for_each_pruning"}

ReturnedOk(t) == pc[t] = "returned" /\ ret[t].kind = "ok"

\* --- C1 -------------------------------------------------------------
\* C1: the plain traversal (for_each) calls back with the matches' (doc, score)
\* pairs in identifier order: at every step what was delivered is a prefix of
\* the matches, as long as the documents the cursor has passed (one more once
\* the callback for the current one ran), and when the call returns Ok the
\* delivered sequence is exactly (d1,s1), ..., (dn,sn).
C1_PlainDeliversAll ==
    \A t \in Threads :
        mode[t] = "for_each" /\ pc[t] \notin {"idle", "start"} /\ ~seg[t].fails =>
            /\ IsPrefix(delivered[t], Matches(seg[t]))
            /\ ~seg[t].scoreAborts =>
                  Len(delivered[t]) =
                      IF pc[t] = "advance" THEN scorer[t].pos ELSE scorer[t].pos - 1
            /\ ReturnedOk(t) => delivered[t] = Matches(seg[t])

\* The spec's example: [3, 7, 9] with scores [1.0, 2.0, 0.5], all delivered.
C1_Witness ==
    \E t \in Threads :
        /\ mode[t] = "for_each" /\ ReturnedOk(t)
        /\ seg[t].scores = <<2, 4, 1>>
        /\ delivered[t] = <<<<3, 2>>, <<7, 4>>, <<9, 1>>>>

\* --- C2 -------------------------------------------------------------
\* The pairs the pruning traversal must deliver from the i-th match on, when
\* the threshold in force is thr and the callback's j-th and later return
\* values are rets[j], rets[j+1], ...: a match is delivered iff its score is
\* strictly greater than the threshold in force, which then becomes the value
\* the callback returned for it.
RECURSIVE Pruned(_, _, _, _, _)
Pruned(ms, i, thr, rets, j) ==
    IF i > Len(ms) THEN <<>>
    ELSE IF GT(ms[i][2], thr) /\ j <= Len(rets)
         THEN <<ms[i]>> \o Pruned(ms, i + 1, rets[j], rets, j + 1)
         ELSE IF GT(ms[i][2], thr)
              THEN <<ms[i]>>
              ELSE Pruned(ms, i + 1, thr, rets, j)

\* The threshold in force: the initial one until the first callback, then the
\* most recent return value.
InForce(t) == IF returns[t] = <<>> THEN thr0[t] ELSE returns[t][Len(returns[t])]

\* C2: in the pruning traversal a document is passed to the callback iff its
\* score is strictly greater than the threshold in force when it is visited
\* (the initial threshold, then the last value the callback returned); equal
\* scores are not delivered. With matches [3,7,9], scores [1.0,2.0,0.5],
\* threshold 1.5 and a max(threshold, score) callback, only document 7 is
\* delivered.
C2_PruningDeliversIffAbove ==
    \A t \in Threads :
        mode[t] = "for_each_pruning" /\ ~seg[t].scoreAborts =>
            /\ pc[t] \in {"score", "callback", "advance", "return", "returned"}
                  /\ ~seg[t].fails => threshold[t] = InForce(t)
            /\ pc[t] = "callback" => GT(score[t], InForce(t))
            /\ Len(returns[t]) = Len(delivered[t])
            /\ ReturnedOk(t) =>
                  /\ delivered[t] = Pruned(Matches(seg[t]), 1, thr0[t], returns[t], 1)
                  /\ \A i \in 1..Len(delivered[t]) :
                        GT(delivered[t][i][2],
                           IF i = 1 THEN thr0[t] ELSE returns[t][i - 1])
                  /\ seg[t].scores = <<2, 4, 1>> /\ thr0[t] = 3
                        /\ policy[t].kind = "max" => delivered[t] = <<<<7, 4>>>>

\* The spec's example ran: one callback, for document 7, threshold raised to 2.0.
C2_Witness ==
    \E t \in Threads :
        /\ mode[t] = "for_each_pruning" /\ ReturnedOk(t)
        /\ seg[t].scores = <<2, 4, 1>> /\ thr0[t] = 3 /\ policy[t].kind = "max"
        /\ delivered[t] = <<<<7, 4>>>> /\ returns[t] = <<4>>

\* --- C3 -------------------------------------------------------------
\* C3: when building the scorer fails, for_each, for_each_no_score and
\* for_each_pruning return that error, and the callback is never invoked:
\* the call goes from the factory straight to its return, touching neither
\* a scorer nor the callback; and an Err result never comes with a callback.
C3_FailedConstructionNoCallback ==
    \A t \in Threads :
        mode[t] \in Traversals =>
            /\ seg[t].fails /\ pc[t] # "idle" =>
                  /\ pc[t] \in {"start", "returned"}
                  /\ delivered[t] = <<>> /\ returns[t] = <<>> /\ ops[t] = <<>>
                  /\ pc[t] = "returned" => ret[t] = Err
            /\ ret[t].kind = "err" => seg[t].fails /\ delivered[t] = <<>>

\* for_each_pruning returned the construction error.
C3_Witness ==
    \E t \in Threads :
        /\ mode[t] = "for_each_pruning" /\ seg[t].fails
        /\ pc[t] = "returned" /\ ret[t] = Err /\ Len(factory[t]) = 1

\* --- C4 -------------------------------------------------------------
\* C4: the score-free traversal (for_each_no_score) never calls score(): no
\* score call is among the calls it made on the scorer, it never aborts, even
\* over a scorer whose score() aborts, and when it returns every matched
\* document was delivered.
C4_NoScoreNeverScores ==
    \A t \in Threads :
        mode[t] = "for_each_no_score" =>
            /\ \A i \in 1..Len(ops[t]) : ~IsScore(ops[t][i])
            /\ pc[t] # "aborted"
            /\ IsPrefix(Ids(delivered[t]), Ids(Matches(seg[t])))
            /\ \A i \in 1..Len(delivered[t]) : Len(delivered[t][i]) = 1
            /\ ReturnedOk(t) => Ids(delivered[t]) = Ids(Matches(seg[t]))

\* A score-free traversal over an aborting scorer delivered all three documents.
C4_Witness ==
    \E t \in Threads :
        /\ mode[t] = "for_each_no_score" /\ seg[t].scoreAborts /\ ReturnedOk(t)
        /\ delivered[t] = <<<<3>>, <<7>>, <<9>>>>

\* --- C5 -------------------------------------------------------------
\* Matched documents of a segment, and those of them that are alive.
MatchedDocs(segment) == {DocIdOf(i) : i \in 1..Len(segment.scores)}

\* C5: Weight::count returns, when the scorer was built, the number of matched
\* documents in the alive bitset if the segment has one and the number of all
\* matched documents otherwise ([3,7,9] with 7 deleted: 2 with the bitset, 3
\* without); when building the scorer fails it returns the error.
C5_CountDefault ==
    \A t \in Threads :
        mode[t] = "count" /\ pc[t] = "returned" =>
            /\ seg[t].fails => ret[t] = Err
            /\ ~seg[t].fails /\ seg[t].alive.some =>
                  ret[t] = Ok(Cardinality(MatchedDocs(seg[t]) \cap seg[t].alive.docs))
            /\ ~seg[t].fails /\ ~seg[t].alive.some =>
                  ret[t] = Ok(Len(seg[t].scores))
            /\ ~seg[t].fails /\ Len(seg[t].scores) = 3
                  /\ seg[t].alive = [some |-> TRUE, docs |-> {3, 9}] => ret[t] = Ok(2)
            /\ ~seg[t].fails /\ Len(seg[t].scores) = 3
                  /\ ~seg[t].alive.some => ret[t] = Ok(3)

\* count over [3, 7, 9] with 7 deleted returned 2.
C5_Witness ==
    \E t \in Threads :
        /\ mode[t] = "count" /\ pc[t] = "returned"
        /\ Len(seg[t].scores) = 3
        /\ seg[t].alive = [some |-> TRUE, docs |-> {3, 9}]
        /\ ret[t] = Ok(2)

\* --- C6 -------------------------------------------------------------
AdvanceCalls(t) == SelectSeq(ops[t], IsAdvance)

Comparable(a, b) == IsPrefix(a, b) \/ IsPrefix(b, a)

\* C6: when for_each and for_each_no_score run over equal segments, the
\* identifiers for_each_no_score delivers are those for_each delivers, in the
\* same order, and both make the same advance() calls with the same results:
\* at every step one run's sequences are a prefix of the other's, and once
\* both have returned the sequences are equal.
C6_NoScoreSameIdsAsPlain ==
    \A t, u \in Threads :
        mode[t] = "for_each" /\ mode[u] = "for_each_no_score" /\ seg[t] = seg[u] =>
            /\ Comparable(Ids(delivered[t]), Ids(delivered[u]))
            /\ Comparable(AdvanceCalls(t), AdvanceCalls(u))
            /\ ReturnedOk(t) /\ ReturnedOk(u) =>
                  /\ Ids(delivered[t]) = Ids(delivered[u])
                  /\ AdvanceCalls(t) = AdvanceCalls(u)

\* Both runs returned after delivering the same two documents.
C6_Witness ==
    \E t, u \in Threads :
        /\ mode[t] = "for_each" /\ mode[u] = "for_each_no_score" /\ seg[t] = seg[u]
        /\ ReturnedOk(t) /\ ReturnedOk(u)
        /\ Len(delivered[t]) = 2 /\ Len(delivered[u]) = 2
        /\ Len(AdvanceCalls(u)) = 2

\* --- C7 -------------------------------------------------------------
\* Number of advance() calls made so far.
NumAdvances(t) == Len(SelectSeq(ops[t], IsAdvance))

\* C7: the pruning traversal never stops early: it has called advance() once
\* per document passed, it leaves its loop only with the cursor at
\* TERMINATED, and when it returns it has called advance() exactly n times,
\* whatever the callback did to the threshold.
C7_PruningWalksAll ==
    \A t \in Threads :
        mode[t] = "for_each_pruning" /\ ~seg[t].fails /\ ~seg[t].scoreAborts
            /\ pc[t] \notin {"idle", "start"} =>
                /\ NumAdvances(t) = scorer[t].pos - 1
                /\ pc[t] \in {"return", "returned"} =>
                      /\ DocOf(scorer[t]) = TERMINATED
                      /\ doc[t] = TERMINATED
                      /\ NumAdvances(t) = Len(seg[t].scores)

\* The first callback raised the threshold to the top; the two documents
\* after it were skipped, and advance() was still called three times.
C7_Witness ==
    \E t \in Threads :
        /\ mode[t] = "for_each_pruning" /\ ReturnedOk(t)
        /\ Len(seg[t].scores) = 3 /\ NumAdvances(t) = 3
        /\ Len(delivered[t]) = 1 /\ delivered[t][1][1] = 3
        /\ returns[t] = <<MaxScore>>

\* --- C8 -------------------------------------------------------------
\* A traversal has been entered over a scorer that keeps the contract (for
\* the scoring traversals: one whose score() does not abort).
Entered(t) ==
    /\ pc[t] = "doc"
    /\ mode[t] = "for_each_no_score" \/ ~scorer[t].aborts

\* C8: every traversal entered over a constructed scorer eventually returns
\* Ok with the cursor at TERMINATED, and has no other outcome: it never
\* yields an error and never aborts.
C8_TraversalsTerminate ==
    \A t \in Threads :
        /\ Entered(t) ~> (ReturnedOk(t) /\ DocOf(scorer[t]) = TERMINATED)
        /\ [](Entered(t) => [](ret[t].kind # "err" /\ pc[t] # "aborted"))

\* A pruning traversal over three documents returned with the cursor at
\* TERMINATED.
C8_Witness ==
    \E t \in Threads :
        /\ mode[t] = "for_each_pruning" /\ ReturnedOk(t)
        /\ scorer[t].pos = 4 /\ DocOf(scorer[t]) = TERMINATED
        /\ Len(delivered[t]) = 3

\* One segment is given to two calls at once: thread 1 counts it, thread 2
\* iterates over it. The segment has any alive bitset.
PairSegments ==
    [scores : UNION {[1..n -> {1, MaxScore}] : n \in 0..NumDocs},
     alive : AliveBitsets, fails : {FALSE}, scoreAborts : {FALSE}]

IterationsOver(segment) ==
    [mode : {"for_each", "for_each_no_score"},
     seg : {segment}, thr0 : {0}, policy : {KeepPolicy}]
        \cup [mode : {"for_each_pruning"},
               seg : {segment}, thr0 : {0, MaxScore - 1},
               policy : {[kind |-> "max", val |-> 0], [kind |-> "const", val |-> 0]}]

CountOf(segment) ==
    [mode |-> "count", seg |-> segment, thr0 |-> 0, policy |-> KeepPolicy]

PairCalls ==
    UNION {{[t \in Threads |-> IF t = 1 THEN CountOf(sg) ELSE it] :
                it \in IterationsOver(sg)} : sg \in PairSegments}

InitPair == InitFrom(Threads, PairCalls)

SpecPair == InitPair /\ [][Next]_vars

\* --- C9 -------------------------------------------------------------
\* The callback sequence of a pruning call run alone, from the i-th match on.
RECURSIVE PrunedAlone(_, _, _, _)
PrunedAlone(ms, i, thr, p) ==
    IF i > Len(ms) THEN <<>>
    ELSE IF GT(ms[i][2], thr)
         THEN <<ms[i]>> \o PrunedAlone(ms, i + 1, CallbackReturn(p, thr, ms[i][2]), p)
         ELSE PrunedAlone(ms, i + 1, thr, p)

\* The callback sequence thread t's call delivers when it runs alone.
Alone(t) ==
    IF mode[t] = "for_each" THEN Matches(seg[t])
    ELSE IF mode[t] = "for_each_no_score"
         THEN [i \in 1..Len(seg[t].scores) |-> <<DocIdOf(i)>>]
         ELSE IF mode[t] = "for_each_pruning"
              THEN PrunedAlone(Matches(seg[t]), 1, thr0[t], policy[t])
              ELSE <<>>

\* What belongs to thread t's call.
Own(t) ==
    <<pc[t], scorer[t], doc[t], score[t], threshold[t], delivered[t],
      returns[t], ops[t], factory[t], ret[t]>>

OwnAfter(t) ==
    <<pc'[t], scorer'[t], doc'[t], score'[t], threshold'[t], delivered'[t],
      returns'[t], ops'[t], factory'[t], ret'[t]>>

DeliversAsAlone ==
    \A t \in Threads :
        /\ IsPrefix(delivered[t], Alone(t))
        /\ pc[t] = "returned" => delivered[t] = Alone(t)

\* A step changes the state of one call only.
OneCallPerStep ==
    \A t, u \in Threads : t # u /\ pc'[t] # pc[t] => OwnAfter(u) = Own(u)

\* C9: with several threads running calls of one Weight at once, under every
\* interleaving each thread delivers a prefix of what it delivers alone and,
\* once returned, exactly that; and every step changes the scorer, the
\* threshold and the other locals of one call only.
C9_ThreadsIndependent == []DeliversAsAlone /\ [][OneCallPerStep]_vars

\* Two pruning calls, both returned, delivered different sequences.
C9_Witness ==
    /\ mode[1] = "for_each_pruning" /\ mode[2] = "for_each_pruning"
    /\ pc[1] = "returned" /\ pc[2] = "returned"
    /\ Len(delivered[1]) = 2 /\ Len(delivered[2]) = 1
    /\ threshold[1] # threshold[2]

\* --- C10 ------------------------------------------------------------
\* The score a segment's query gives document d.
ScoreOfDoc(segment, d) ==
    LET i == CHOOSE k \in 1..Len(segment.scores) : DocIdOf(k) = d
    IN segment.scores[i]

\* C10: in for_each and for_each_pruning, score() is never called with the
\* cursor at TERMINATED; every score() call directly follows the doc() or
\* advance() call that returned the document the cursor is on; and the score
\* handed to the callback is the score of the document handed with it.
C10_ScoreOfCurrentDoc ==
    \A t \in Threads :
        mode[t] \in {"for_each", "for_each_pruning"} =>
            /\ \A i \in 1..Len(ops[t]) :
                  IsScore(ops[t][i]) =>
                      /\ ops[t][i][2] # TERMINATED
                      /\ i > 1
                      /\ ops[t][i - 1][1] \in {"doc", "advance"}
                      /\ ops[t][i - 1][2] = ops[t][i][2]
            /\ pc[t] = "callback" =>
                  /\ doc[t] = DocOf(scorer[t])
                  /\ doc[t] \in MatchedDocs(seg[t])
                  /\ score[t] = ScoreOfDoc(seg[t], doc[t])
            /\ \A i \in 1..Len(delivered[t]) :
                  /\ delivered[t][i][1] \in MatchedDocs(seg[t])
                  /\ delivered[t][i][2] = ScoreOfDoc(seg[t], delivered[t][i][1])

\* A pruning traversal scored three documents and delivered two of them.
C10_Witness ==
    \E t \in Threads :
        /\ mode[t] = "for_each_pruning" /\ ReturnedOk(t)
        /\ Len(SelectSeq(ops[t], IsScore)) = 3
        /\ Len(delivered[t]) = 2
        /\ delivered[t][1][2] # delivered[t][2][2]

\* --- C11 ------------------------------------------------------------
\* The matched documents of a segment that its alive bitset marks deleted.
DeletedMatches(segment) ==
    IF segment.alive.some THEN MatchedDocs(segment) \ segment.alive.docs ELSE {}

\* C11: for_each, for_each_no_score and for_each_pruning over a segment
\* deliver what they deliver whatever its alive bitset is: the deleted
\* matches are delivered by for_each and for_each_no_score like the others,
\* and the number of documents for_each_no_score delivers is the value count
\* returns for the same segment plus the number of deleted matches.
C11_IterationIgnoresDeletes ==
    \A t, u \in Threads :
        mode[t] = "count" /\ mode[u] \in Traversals /\ seg[t] = seg[u]
            /\ ReturnedOk(u) =>
                /\ delivered[u] = Alone(u)
                /\ mode[u] # "for_each_pruning" =>
                      \A d \in DeletedMatches(seg[u]) :
                          \E i \in 1..Len(delivered[u]) : delivered[u][i][1] = d
                /\ mode[u] = "for_each_no_score" /\ ReturnedOk(t) =>
                      Len(delivered[u]) =
                          ret[t].val + Cardinality(DeletedMatches(seg[u]))

\* count returned 1 for [3, 7, 9] with 3 and 9 deleted, and for_each_no_score
\* delivered all three documents.
C11_Witness ==
    \E t, u \in Threads :
        /\ mode[t] = "count" /\ mode[u] = "for_each_no_score" /\ seg[t] = seg[u]
        /\ seg[u].alive = [some |-> TRUE, docs |-> {7}]
        /\ ReturnedOk(t) /\ ReturnedOk(u)
        /\ ret[t].val = 1 /\ Len(delivered[u]) = 3

\* --- C12 ------------------------------------------------------------
\* Number of callbacks made for documents before the i-th match.
DeliveredBefore(t, i) ==
    Cardinality({j \in 1..Len(delivered[t]) : delivered[t][j][1] < DocIdOf(i)})

\* The value the i-th match is compared against if the most recent return
\* value counts: the initial threshold, or what the last callback before it
\* returned.
LastReturnBefore(t, i) ==
    IF DeliveredBefore(t, i) = 0 THEN thr0[t] ELSE returns[t][DeliveredBefore(t, i)]

\* The threshold the callback before the i-th match replaced.
ReplacedBefore(t, i) ==
    IF DeliveredBefore(t, i) = 1 THEN thr0[t] ELSE returns[t][DeliveredBefore(t, i) - 1]

IsDelivered(t, d) == \E j \in 1..Len(delivered[t]) : delivered[t][j][1] = d

\* C12: the pruning traversal compares every document against the value the
\* most recent callback returned, also when that value is lower than the
\* threshold it replaced: a document is delivered iff its score is above the
\* last return value, so a document whose score lies between a lowered value
\* and the earlier threshold is delivered.
C12_LoweredThresholdApplies ==
    \A t \in Threads :
        mode[t] = "for_each_pruning" /\ ReturnedOk(t) =>
            \A i \in 1..Len(seg[t].scores) :
                /\ IsDelivered(t, DocIdOf(i)) <=>
                      GT(seg[t].scores[i], LastReturnBefore(t, i))
                /\ DeliveredBefore(t, i) >= 1
                      /\ GT(ReplacedBefore(t, i), LastReturnBefore(t, i))
                      /\ GT(seg[t].scores[i], LastReturnBefore(t, i))
                      /\ ~GT(seg[t].scores[i], ReplacedBefore(t, i)) =>
                          IsDelivered(t, DocIdOf(i))

\* Threshold 1.5; document 3 (2.0) was delivered and the callback returned
\* 0.5; document 7 (1.0, not above 1.5) was then delivered.
C12_Witness ==
    \E t \in Threads :
        /\ mode[t] = "for_each_pruning" /\ ReturnedOk(t)
        /\ thr0[t] = 3 /\ Len(seg[t].scores) >= 2
        /\ seg[t].scores[1] = 4 /\ seg[t].scores[2] = 2
        /\ Len(returns[t]) >= 2 /\ returns[t][1] = 1
        /\ delivered[t][2] = <<7, 2>>

\* --- C13 ------------------------------------------------------------
\* The document the scorer of a segment is on when it is built.
FirstDoc(segment) == IF Len(segment.scores) = 0 THEN TERMINATED ELSE DocIdOf(1)

\* C13: a traversal starts at the document doc() returns at entry, without
\* advancing first: its first call on the scorer is doc(), returning the
\* scorer's first document; that document is scored or delivered before any
\* advance(); and when doc() returns TERMINATED at entry the traversal makes
\* no callback, no score() call and no advance() call.
C13_StartsAtCurrentDoc ==
    \A t \in Threads :
        mode[t] \in Traversals /\ ~seg[t].fails
            /\ pc[t] \notin {"idle", "start", "doc"} =>
                /\ ops[t][1] = <<"doc", FirstDoc(seg[t])>>
                /\ Len(ops[t]) >= 2 =>
                      IF mode[t] = "for_each_no_score"
                      THEN delivered[t][1] = <<FirstDoc(seg[t])>>
                      ELSE ops[t][2] = <<"score", FirstDoc(seg[t])>>
                /\ Len(delivered[t]) >= 1 /\ mode[t] # "for_each_pruning" =>
                      delivered[t][1][1] = FirstDoc(seg[t])
                /\ Len(seg[t].scores) = 0 =>
                      /\ ops[t] = <<<<"doc", TERMINATED>>>>
                      /\ delivered[t] = <<>> /\ returns[t] = <<>>
                      /\ pc[t] \in {"return", "returned"}

\* A pruning traversal entered with the cursor at TERMINATED returned after
\* its doc() call alone.
C13_Witness ==
    \E t \in Threads :
        /\ mode[t] = "for_each_pruning" /\ ReturnedOk(t)
        /\ Len(seg[t].scores) = 0 /\ ~seg[t].fails
        /\ ops[t] = <<<<"doc", TERMINATED>>>> /\ delivered[t] = <<>>

\* --- C14 ------------------------------------------------------------
\* The scores the scorer of thread t reports, document by document.
ScorerScores(t) == [i \in 1..Len(scorer[t].postings) |-> scorer[t].postings[i][2]]

\* C14: count, for_each, for_each_no_score and for_each_pruning call the
\* scorer factory once per call, not before the call starts and never again,
\* with boost 1.0, so that the scorer reports the segment's scores as they
\* are; and for_each_pruning's traversal starts with the caller's threshold:
\* until the first callback the threshold in use is the argument.
C14_FactoryOnceBoostOne ==
    \A t \in Threads :
        pc[t] # "idle" =>
            /\ pc[t] = "start" => factory[t] = <<>>
            /\ pc[t] # "start" => factory[t] = <<1>>
            /\ pc[t] # "start" /\ ~seg[t].fails => ScorerScores(t) = seg[t].scores
            /\ mode[t] = "for_each_pruning" /\ ~seg[t].fails
                  /\ pc[t] \notin {"start", "doc"} /\ returns[t] = <<>> =>
                      threshold[t] = thr0[t]

\* for_each_pruning called with threshold 1.5 is about to score its first
\* document: one factory call with boost 1.0, threshold still 1.5.
C14_Witness ==
    \E t \in Threads :
        /\ mode[t] = "for_each_pruning" /\ pc[t] = "score"
        /\ thr0[t] = 3 /\ threshold[t] = 3 /\ returns[t] = <<>>
        /\ factory[t] = <<1>> /\ Len(ops[t]) = 1
        /\ seg[t].scores = <<2, 4, 1>> /\ ScorerScores(t) = <<2, 4, 1>>

\* --- C15 ------------------------------------------------------------
\* Every callback so far returned a value at least the score it was given.
ReturnsAtLeastScore(t) ==
    \A j \in 1..Len(returns[t]) :
        returns[t][j] # NaN /\ returns[t][j] >= delivered[t][j][2]

\* The threshold the j-th callback replaced.
Replaced(t, j) == IF j = 1 THEN thr0[t] ELSE returns[t][j - 1]

\* C15: in the pruning traversal, as long as the callback returns values at
\* least the score it is given, the threshold never goes down (every return
\* value is at least the threshold it replaces, and the threshold in use is
\* the last of them) and the scores delivered are strictly increasing.
C15_RaisingCallbackMonotone ==
    \A t \in Threads :
        mode[t] = "for_each_pruning" /\ ReturnsAtLeastScore(t) =>
            /\ Len(returns[t]) = Len(delivered[t])
            /\ \A j \in 1..Len(returns[t]) :
                  /\ Replaced(t, j) # NaN
                  /\ returns[t][j] >= Replaced(t, j)
            /\ pc[t] \in {"score", "callback", "advance", "return", "returned"}
                  /\ ~seg[t].fails => threshold[t] = InForce(t) /\ ~GT(thr0[t], threshold[t])
            /\ \A j, k \in 1..Len(delivered[t]) :
                  j < k => delivered[t][j][2] < delivered[t][k][2]

\* A max(threshold, score) callback from threshold 0: three documents with
\* scores 0.5, 1.0, 2.0 delivered, the threshold raised to each in turn.
C15_Witness ==
    \E t \in Threads :
        /\ mode[t] = "for_each_pruning" /\ ReturnedOk(t)
        /\ policy[t].kind = "max" /\ thr0[t] = 0
        /\ delivered[t] = <<<<3, 1>>, <<7, 2>>, <<9, 4>>>>
        /\ returns[t] = <<1, 2, 4>> /\ threshold[t] = 4

\* --- C16 ------------------------------------------------------------
\* a is b with some elements left out, the others in b's order.
RECURSIVE IsSubseq(_, _)
IsSubseq(a, b) ==
    IF a = <<>> THEN TRUE
    ELSE IF b = <<>> THEN FALSE
    ELSE IF Head(a) = Head(b) THEN IsSubseq(Tail(a), Tail(b))
    ELSE IsSubseq(a, Tail(b))

\* The threshold of thread t's pruning call stayed strictly below every
\* score: the initial one is below all of them and every callback returned
\* the threshold it was called under.
StaysBelowAll(t) ==
    /\ \A i \in 1..Len(seg[t].scores) : GT(seg[t].scores[i], thr0[t])
    /\ \A j \in 1..Len(returns[t]) : returns[t][j] = thr0[t]

\* C16: when for_each and for_each_pruning run over equal segments, the
\* (doc, score) pairs the pruning call has delivered are, at every step, a
\* subsequence of the matches for_each delivers in full, and once both have
\* returned a subsequence of what for_each delivered; if the threshold stayed
\* strictly below every score, the two delivered sequences are equal.
C16_PruningSubsequenceOfPlain ==
    \A t, u \in Threads :
        mode[t] = "for_each" /\ mode[u] = "for_each_pruning" /\ seg[t] = seg[u] =>
            /\ ReturnedOk(t) => IsSubseq(delivered[u], delivered[t])
            /\ ReturnedOk(t) /\ ReturnedOk(u) /\ StaysBelowAll(u) =>
                  delivered[u] = delivered[t]

\* Over two documents with scores 0.5 and 2.0, for_each delivered both and
\* the pruning call with threshold 1.5 only the second.
C16_Witness ==
    \E t, u \in Threads :
        /\ mode[t] = "for_each" /\ mode[u] = "for_each_pruning" /\ seg[t] = seg[u]
        /\ ReturnedOk(t) /\ ReturnedOk(u)
        /\ thr0[u] = MaxScore - 1
        /\ delivered[t] = <<<<3, 1>>, <<7, MaxScore>>>>
        /\ delivered[u] = <<<<7, MaxScore>>>>

====
